---- MODULE Spec2Model ----
(***************************************************************************)
(* data-mirror: the command-line entry point of                            *)
(* application/data-connectors/data-mirror (src/main.rs).                  *)
(*                                                                         *)
(* main() calls argh::from_env() on the process arguments, which either    *)
(* returns a Cli value or ends the process (help: stdout, status 0; usage  *)
(* error: stderr, status 1), then matches on the subcommand and prints one *)
(* line.  Strings are sequences of one-character strings, so that token    *)
(* comparison, prefix tests and the formatting of the printed line are     *)
(* computed and not assumed.  The parser is the one the argh derive        *)
(* attributes of main.rs generate (argh 0.1: parse_struct_args).           *)
(***************************************************************************)
EXTENDS Naturals, Sequences, FiniteSets

\* ------------------------------------------------------------------ bounds
\* Longest argument list drawn from the whole token alphabet.
MaxArgs == 3
\* Longest list of tokens following a subcommand token, drawn from TailTokens.
MaxTail == 4
\* The same two bounds for the runs checked for termination.
MaxLiveArgs == 2
MaxLiveTail == 3

\* ---------------------------------------------------------------- state
VARIABLES
  args,     \* the process arguments, without the program name
  env,      \* environment of the run (variables, files); never read
  pc,       \* position in main: start, match, egress, ingress, return, exited
  cli,      \* the value from_env returned: <<>> before, <<Cli>> after
  stdout,   \* lines written to standard output
  stderr,   \* lines written to standard error
  status,   \* <<>> while running, <<code>> once the process has exited
  prev      \* outcome and environment of the earlier run on the same arguments:
            \* <<>> or <<o>>

vars == <<args, env, pc, cli, stdout, stderr, status, prev>>

\* ------------------------------------------------- literals of the source
\* #[argh(subcommand, name = "egress")]
EgressName == <<"e", "g", "r", "e", "s", "s">>
\* #[argh(subcommand, name = "ingress")]
IngressName == <<"i", "n", "g", "r", "e", "s", "s">>
\* the field the option is derived from: `type_: String`
TypeField == <<"t", "y", "p", "e", "_">>
\* default = "String::from(\"postgres\")" of EgressCmd
\* variants of the default: another literal; a value taken from the environment
MutEgressDefaultType == <<"p", "o", "s", "t", "g", "r", "e", "s", "q", "l">>
MutDefaultFromEnv == IF env = "env_a" THEN <<"p", "o", "s", "t", "g", "r", "e", "s">> ELSE <<"m", "y", "s", "q", "l">>
EgressDefaultType == <<"p", "o", "s", "t", "g", "r", "e", "s">>
\* default = "String::from(\"postgres\")" of IngressCmd
IngressDefaultType == <<"p", "o", "s", "t", "g", "r", "e", "s">>
\* the command name from_env derives from argv[0]
CmdName == <<"d", "a", "t", "a", "-", "m", "i", "r", "r", "o", "r">>
\* the doc comments, which argh prints as the description in the help text
CliDescription == <<"D", "a", "t", "a", " ", "M", "i", "r", "r", "o", "r", " ", "C", "L", "I">>
EgressDescription == <<"M", "o", "v", "i", "n", "g", " ", "d", "a", "t", "a", " ", "o", "u", "t">>
IngressDescription == <<"M", "o", "v", "i", "n", "g", " ", "d", "a", "t", "a", " ", "i", "n">>

\* ------------------------------------------------------------ the inputs
TokHelpFlag == <<"-", "-", "h", "e", "l", "p">>
TokHelpWord == <<"h", "e", "l", "p">>
TokDashDash == <<"-", "-">>
TokTypeOpt == <<"-", "-", "t", "y", "p", "e">>
TokUnknownOpt == <<"-", "-", "v", "e", "r", "b", "o", "s", "e">>
TokTransform == <<"t", "r", "a", "n", "s", "f", "o", "r", "m">>
TokEgressCap == <<"E", "g", "r", "e", "s", "s">>
TokIngressUpper == <<"I", "N", "G", "R", "E", "S", "S">>
TokEgres == <<"e", "g", "r", "e", "s">>
TokEgresss == <<"e", "g", "r", "e", "s", "s", "s">>
TokMysql == <<"m", "y", "s", "q", "l">>
TokEmpty == << >>
TokOdd == <<"m", "y", " ", "{", "}", "%", "s">>

Tokens ==
  { EgressName, IngressName, TokTypeOpt, TokDashDash, TokHelpFlag, TokHelpWord,
    TokUnknownOpt, TokTransform, TokEgressCap, TokIngressUpper, TokEgres,
    TokEgresss, TokMysql, TokEmpty, TokOdd }

TailTokens ==
  { TokTypeOpt, TokDashDash, TokHelpFlag, TokHelpWord, TokUnknownOpt, TokMysql }

SeqsUpTo(S, n) == UNION { [1..k -> S] : k \in 0..n }

\* The argument lists explored: every list of at most MaxArgs tokens, and every
\* subcommand token followed by at most MaxTail option-like tokens.
ArgListsUpTo(n, m) ==
  SeqsUpTo(Tokens, n)
    \cup { <<s>> \o t : s \in {EgressName, IngressName}, t \in SeqsUpTo(TailTokens, m) }
ArgLists == ArgListsUpTo(MaxArgs, MaxTail)
LiveArgLists == ArgListsUpTo(MaxLiveArgs, MaxLiveTail)

\* What the process could read besides its arguments (it reads none of it).
Envs == {"env_a", "env_b"}

\* ------------------------------------------------------- string helpers
StartsWith(s, p) == Len(s) >= Len(p) /\ SubSeq(s, 1, Len(p)) = p

\* next_arg.starts_with('-')
StartsWithDash(arg) == Len(arg) > 0 /\ arg[1] = "-"

\* argh_derive to_kebab_case: split on '_', drop the empty words, join with '-'
RECURSIVE KebabWords(_, _, _)
KebabWords(s, word, acc) ==
  IF s = << >>
    THEN (IF word = << >> THEN acc ELSE Append(acc, word))
    ELSE IF Head(s) = "_"
      THEN KebabWords(Tail(s), << >>, IF word = << >> THEN acc ELSE Append(acc, word))
      ELSE KebabWords(Tail(s), Append(word, Head(s)), acc)

RECURSIVE JoinDash(_)
JoinDash(words) ==
  IF words = << >> THEN << >>
  ELSE IF Len(words) = 1 THEN words[1]
  ELSE words[1] \o <<"-">> \o JoinDash(Tail(words))

ToKebabCase(s) == JoinDash(KebabWords(s, << >>, << >>))

\* the long name of the option of EgressCmd and IngressCmd: "--" + kebab(field)
TypeLongName == <<"-", "-">> \o ToKebabCase(TypeField)

\* ------------------------------------------------------ argh: the parser
None == << >>
Some(v) == <<v>>

Ok(command, type) ==
  [kind |-> "ok", command |-> command, type_ |-> type, output |-> << >>]
HelpExit(lines) ==
  [kind |-> "help", command |-> "none", type_ |-> << >>, output |-> lines]
ErrExit(lines) ==
  [kind |-> "err", command |-> "none", type_ |-> << >>, output |-> lines]

\* the help text argh generates (usage line and description; the option and
\* command tables are left out)
HelpText(level) ==
  IF level = "Cli"
    THEN << <<"U", "s", "a", "g", "e", ":", " ">> \o CmdName \o <<" ", "<", "c", "o", "m", "m", "a", "n", "d", ">", " ", "[", "<", "a", "r", "g", "s", ">", "]">>, CliDescription >>
  ELSE IF level = "Egress"
    THEN << <<"U", "s", "a", "g", "e", ":", " ">> \o CmdName \o <<" ">> \o EgressName \o <<" ", "[">> \o TypeLongName \o <<" ", "<", "t", "y", "p", "e", ">", "]">>,
            EgressDescription >>
    ELSE << <<"U", "s", "a", "g", "e", ":", " ">> \o CmdName \o <<" ">> \o IngressName \o <<" ", "[">> \o TypeLongName \o <<" ", "<", "t", "y", "p", "e", ">", "]">>,
            IngressDescription >>

UnrecognizedArgument(arg) == << <<"U", "n", "r", "e", "c", "o", "g", "n", "i", "z", "e", "d", " ", "a", "r", "g", "u", "m", "e", "n", "t", ":", " ">> \o arg >>
NoValueProvided(arg) == << <<"N", "o", " ", "v", "a", "l", "u", "e", " ", "p", "r", "o", "v", "i", "d", "e", "d", " ", "f", "o", "r", " ", "o", "p", "t", "i", "o", "n", " ", "'">> \o arg \o <<"'", ".">> >>
DuplicateValues(arg, value) ==
  << <<"E", "r", "r", "o", "r", " ", "p", "a", "r", "s", "i", "n", "g", " ", "o", "p", "t", "i", "o", "n", " ", "'">> \o arg \o <<"'", " ", "w", "i", "t", "h", " ", "v", "a", "l", "u", "e", " ", "'">> \o value
       \o <<"'", ":", " ", "d", "u", "p", "l", "i", "c", "a", "t", "e", " ", "v", "a", "l", "u", "e", "s", " ", "p", "r", "o", "v", "i", "d", "e", "d">> >>
TrailingAfterHelp == << <<"T", "r", "a", "i", "l", "i", "n", "g", " ", "a", "r", "g", "u", "m", "e", "n", "t", "s", " ", "a", "r", "e", " ", "n", "o", "t", " ", "a", "l", "l", "o", "w", "e", "d", " ", "a", "f", "t", "e", "r", " ", "h", "e", "l", "p", ".">> >>
MissingSubcommand ==
  << <<"O", "n", "e", " ", "o", "f", " ", "t", "h", "e", " ", "f", "o", "l", "l", "o", "w", "i", "n", "g", " ", "s", "u", "b", "c", "o", "m", "m", "a", "n", "d", "s", " ", "m", "u", "s", "t", " ", "b", "e", " ", "p", "r", "e", "s", "e", "n", "t", ":">>,
     <<" ", " ", " ", " ", "h", "e", "l", "p">>, <<" ", " ", " ", " ">> \o EgressName, <<" ", " ", " ", " ">> \o IngressName >>

\* parse_struct_args: (next_arg == "--help" || next_arg == "help")
IsHelpTrigger(arg) == arg = TokHelpFlag \/ arg = TokHelpWord

\* ParseStructSubCommand::parse: subcommand.name == arg
\* variant: the token may be a prefix of the name
MutNameMatches(name, arg) == StartsWith(name, arg)
NameMatches(name, arg) == name = arg

\* the variant of Commands a token selects, "none" when it names no subcommand
\* (enum Commands: Egress first, Ingress second)
\* variant: an unknown token falls through to the first variant
MutSubcommandOf(arg) ==
  IF NameMatches(IngressName, arg) THEN "Ingress" ELSE "Egress"
SubcommandOf(arg) ==
  IF NameMatches(EgressName, arg) THEN "Egress"
  ELSE IF NameMatches(IngressName, arg) THEN "Ingress"
  ELSE "none"

\* the options a struct declares: Cli none, EgressCmd and IngressCmd --type
OptionsOf(level) == IF level = "Cli" THEN {} ELSE {TypeLongName}

\* the default of the struct's type_ field
DefaultOf(level) == IF level = "Egress" THEN EgressDefaultType ELSE IngressDefaultType

\* ParseValueSlotTy<Option<T>, T>::fill_slot: a second value is refused
\* variant: a second value overwrites the first
MutFillSlot(slot, arg, value) ==
  [err |-> FALSE, slot |-> Some(value), output |-> << >>]
FillSlot(slot, arg, value) ==
  IF slot # None
    THEN [err |-> TRUE, slot |-> slot, output |-> DuplicateValues(arg, value)]
    ELSE [err |-> FALSE, slot |-> Some(value), output |-> << >>]

\* ParseStructOptions::parse for a value option: the next argument, whatever it
\* looks like, is the value; none left is an error
\* variant: a missing value is read as the empty string
MutOptionValue(arg, rest) ==
  IF rest = << >>
    THEN [err |-> FALSE, value |-> << >>, rest |-> << >>, output |-> << >>]
    ELSE [err |-> FALSE, value |-> Head(rest), rest |-> Tail(rest), output |-> << >>]
OptionValue(arg, rest) ==
  IF rest = << >>
    THEN [err |-> TRUE, value |-> << >>, rest |-> << >>, output |-> NoValueProvided(arg)]
    ELSE [err |-> FALSE, value |-> Head(rest), rest |-> Tail(rest), output |-> << >>]

\* what parsing returns once the arguments are used up without a help request:
\* Cli needs its subcommand, a subcommand struct resolves its default
Finish(level, slot) ==
  IF level = "Cli" THEN ErrExit(MissingSubcommand)
  ELSE Ok(level, IF slot = None THEN DefaultOf(level) ELSE slot[1])

\* argh::parse_struct_args, for Cli (level "Cli": no options, no positionals,
\* the two subcommands) and for EgressCmd / IngressCmd (levels "Egress" and
\* "Ingress": the option --type, no positionals, no subcommands)
RECURSIVE ParseStructArgs(_, _, _, _, _)
ParseStructArgs(level, remaining, help, optionsEnded, slot) ==
  IF remaining = << >>
    THEN (IF help THEN HelpExit(HelpText(level)) ELSE Finish(level, slot))
    ELSE
      LET nextArg == Head(remaining)
          rest == Tail(remaining)
      IN
      IF IsHelpTrigger(nextArg) /\ ~optionsEnded
        THEN ParseStructArgs(level, rest, TRUE, optionsEnded, slot)
      ELSE IF StartsWithDash(nextArg) /\ ~optionsEnded
        THEN
          IF nextArg = TokDashDash
            THEN ParseStructArgs(level, rest, help, TRUE, slot)
          ELSE IF help
            THEN ErrExit(TrailingAfterHelp)
          ELSE IF nextArg \notin OptionsOf(level)
            THEN ErrExit(UnrecognizedArgument(nextArg))
          ELSE
            LET v == OptionValue(nextArg, rest) IN
            IF v.err THEN ErrExit(v.output)
            ELSE
              LET f == FillSlot(slot, nextArg, v.value) IN
              IF f.err THEN ErrExit(f.output)
              ELSE ParseStructArgs(level, v.rest, help, optionsEnded, f.slot)
      ELSE IF level = "Cli" /\ SubcommandOf(nextArg) # "none"
        \* the subcommand parses the rest; a pending help request is handed
        \* to it as a leading "help"
        THEN ParseStructArgs(SubcommandOf(nextArg),
                             IF help THEN <<TokHelpWord>> \o rest ELSE rest,
                             FALSE, FALSE, None)
      ELSE ErrExit(UnrecognizedArgument(nextArg))

\* Cli::from_args on the process arguments
FromArgs(a) == ParseStructArgs("Cli", a, FALSE, FALSE, None)

\* from_env's exit codes: 0 after help, 1 after an error
HelpStatus == 0
ErrorStatus == 1
\* main returning
SuccessStatus == 0

\* "Run {cmd} --help for more information."
RunHelpHint == <<"R", "u", "n", " ">> \o CmdName \o <<" ", "-", "-", "h", "e", "l", "p", " ", "f", "o", "r", " ", "m", "o", "r", "e", " ", "i", "n", "f", "o", "r", "m", "a", "t", "i", "o", "n", ".">>

\* ------------------------------------------------------------- printing
\* println!("Running egress with type: {}", cmd.type_)
EgressPrefix == <<"R", "u", "n", "n", "i", "n", "g", " ", "e", "g", "r", "e", "s", "s", " ", "w", "i", "t", "h", " ", "t", "y", "p", "e", ":", " ">>
IngressPrefix == <<"R", "u", "n", "n", "i", "n", "g", " ", "i", "n", "g", "r", "e", "s", "s", " ", "w", "i", "t", "h", " ", "t", "y", "p", "e", ":", " ">>

\* variant: the type formatted with {:?}, in quotes
MutEgressLine(type) == EgressPrefix \o <<"\"">> \o type \o <<"\"">>
EgressLine(type) == EgressPrefix \o type

\* variant: the egress format string in the ingress arm
MutIngressLine(type) == EgressPrefix \o type
IngressLine(type) == IngressPrefix \o type

\* a line of the success format
IsSuccessLine(line) == StartsWith(line, EgressPrefix) \/ StartsWith(line, IngressPrefix)

\* the arm of `match cli.command` a variant selects
\* variant: the arms swapped
MutMatchArm(command) == IF command = "Egress" THEN "ingress" ELSE "egress"
MatchArm(command) == IF command = "Egress" THEN "egress" ELSE "ingress"

\* ---------------------------------------------------------------- runs
InitWith(lists) ==
  /\ args \in lists
  /\ env \in Envs
  /\ pc = "start"
  /\ cli = None
  /\ stdout = << >>
  /\ stderr = << >>
  /\ status = << >>
  /\ prev = None

Init == InitWith(ArgLists)

\* let cli: Cli = argh::from_env();  -- parsing succeeded
FromEnvOk ==
  /\ pc = "start"
  /\ FromArgs(args).kind = "ok"
  /\ cli' = Some([command |-> FromArgs(args).command, type_ |-> FromArgs(args).type_])
  /\ pc' = "match"
  /\ UNCHANGED <<args, env, stdout, stderr, status, prev>>

\* from_env on EarlyExit with status Ok(()): println!(output); exit(0)
FromEnvHelp ==
  /\ pc = "start"
  /\ FromArgs(args).kind = "help"
  /\ stdout' = stdout \o FromArgs(args).output
  /\ status' = <<HelpStatus>>
  /\ pc' = "exited"
  /\ UNCHANGED <<args, env, cli, stderr, prev>>

\* from_env on EarlyExit with status Err(()): eprintln!(output, hint); exit(1)
FromEnvError ==
  /\ pc = "start"
  /\ FromArgs(args).kind = "err"
  /\ stderr' = stderr \o FromArgs(args).output \o <<RunHelpHint>>
  /\ status' = <<ErrorStatus>>
  /\ pc' = "exited"
  /\ UNCHANGED <<args, env, cli, stdout, prev>>

\* match cli.command { Commands::Egress(cmd) => ..., Commands::Ingress(cmd) => ... }
Match ==
  /\ pc = "match"
  /\ pc' = MatchArm(cli[1].command)
  /\ UNCHANGED <<args, env, cli, stdout, stderr, status, prev>>

\* println!("Running egress with type: {}", cmd.type_);
\* variant: the line printed twice
MutPrintEgress ==
  /\ pc = "egress"
  /\ stdout' = stdout \o << EgressLine(cli[1].type_), EgressLine(cli[1].type_) >>
  /\ pc' = "return"
  /\ UNCHANGED <<args, env, cli, stderr, status, prev>>
PrintEgress ==
  /\ pc = "egress"
  /\ stdout' = Append(stdout, EgressLine(cli[1].type_))
  /\ pc' = "return"
  /\ UNCHANGED <<args, env, cli, stderr, status, prev>>

\* println!("Running ingress with type: {}", cmd.type_);
PrintIngress ==
  /\ pc = "ingress"
  /\ stdout' = Append(stdout, IngressLine(cli[1].type_))
  /\ pc' = "return"
  /\ UNCHANGED <<args, env, cli, stderr, status, prev>>

\* main returns: the process exits with status 0
Return ==
  /\ pc = "return"
  /\ status' = <<SuccessStatus>>
  /\ pc' = "exited"
  /\ UNCHANGED <<args, env, cli, stdout, stderr, prev>>

\* what a finished run leaves behind
Outcome == [stdout |-> stdout, stderr |-> stderr, status |-> status, env |-> env]

\* The same command line is run once more, in whatever environment: a new
\* process, whose state is that of Init; the first run's outcome is kept for
\* comparison.
Rerun ==
  /\ pc = "exited"
  /\ prev = None
  /\ prev' = Some(Outcome)
  /\ env' \in Envs
  /\ pc' = "start"
  /\ cli' = None
  /\ stdout' = << >>
  /\ stderr' = << >>
  /\ status' = << >>
  /\ UNCHANGED args

Step ==
  \/ FromEnvOk
  \/ FromEnvHelp
  \/ FromEnvError
  \/ Match
  \/ PrintEgress
  \/ PrintIngress
  \/ Return

Next == Step \/ Rerun

Spec == Init /\ [][Next]_vars

\* the program's own steps are always taken (one thread, nothing to wait for);
\* whether the command line is run again is up to the user
FairSpec == InitWith(LiveArgLists) /\ [][Next]_vars /\ WF_vars(Step)

\* ------------------------------------------------------------ properties
Subcommands == { <<"e", "g", "r", "e", "s", "s">>, <<"i", "n", "g", "r", "e", "s", "s">> }
Exited == pc = "exited"
ExitedWith(code) == pc = "exited" /\ status = <<code>>
ExitedNonZero == pc = "exited" /\ status # << >> /\ status[1] # 0
NoSuccessLine == \A i \in 1..Len(stdout) : ~IsSuccessLine(stdout[i])
\* the usage error as the user sees it: non-zero exit, message on standard
\* error, no success line on standard output
UsageErrorOutcome == ExitedNonZero /\ stderr # << >> /\ NoSuccessLine

EgressInvocation ==
  \/ args = << <<"e", "g", "r", "e", "s", "s">> >>
  \/ Len(args) = 3 /\ args[1] = <<"e", "g", "r", "e", "s", "s">> /\ args[2] = <<"-", "-", "t", "y", "p", "e">>

\* C1: for the argument lists ["egress"] and ["egress", "--type", X] the process
\* exits 0 and standard output is exactly the one line
\* "Running egress with type: <resolved>", resolved being X or "postgres".
C1_EgressContract ==
  (Exited /\ EgressInvocation) =>
    /\ status = <<0>>
    /\ stdout = << <<"R", "u", "n", "n", "i", "n", "g", " ", "e", "g", "r", "e", "s", "s", " ", "w", "i", "t", "h", " ", "t", "y", "p", "e", ":", " ">>
                     \o (IF Len(args) = 3 THEN args[3] ELSE <<"p", "o", "s", "t", "g", "r", "e", "s">>) >>
C1_Witness ==
  /\ ExitedWith(0)
  /\ args = << <<"e", "g", "r", "e", "s", "s">>, <<"-", "-", "t", "y", "p", "e">>, <<"-", "-", "h", "e", "l", "p">> >>
  /\ stdout = << <<"R", "u", "n", "n", "i", "n", "g", " ", "e", "g", "r", "e", "s", "s", " ", "w", "i", "t", "h", " ", "t", "y", "p", "e", ":", " ", "-", "-", "h", "e", "l", "p">> >>

IngressInvocation ==
  \/ args = << <<"i", "n", "g", "r", "e", "s", "s">> >>
  \/ Len(args) = 3 /\ args[1] = <<"i", "n", "g", "r", "e", "s", "s">> /\ args[2] = <<"-", "-", "t", "y", "p", "e">>

\* C2: for ["ingress"] and ["ingress", "--type", X] the process exits 0 and
\* standard output is exactly "Running ingress with type: <resolved>"; a run
\* that parsed Ingress never has an egress line on standard output, and a run
\* that parsed Egress never has an ingress line.
C2_IngressContract ==
  /\ (Exited /\ IngressInvocation) =>
       /\ status = <<0>>
       /\ stdout = << <<"R", "u", "n", "n", "i", "n", "g", " ", "i", "n", "g", "r", "e", "s", "s", " ", "w", "i", "t", "h", " ", "t", "y", "p", "e", ":", " ">>
                        \o (IF Len(args) = 3 THEN args[3] ELSE <<"p", "o", "s", "t", "g", "r", "e", "s">>) >>
  /\ \A i \in 1..Len(stdout) :
       /\ (cli # None /\ cli[1].command = "Ingress")
            => ~StartsWith(stdout[i], <<"R", "u", "n", "n", "i", "n", "g", " ", "e", "g", "r", "e", "s", "s", " ", "w", "i", "t", "h", " ", "t", "y", "p", "e", ":", " ">>)
       /\ (cli # None /\ cli[1].command = "Egress")
            => ~StartsWith(stdout[i], <<"R", "u", "n", "n", "i", "n", "g", " ", "i", "n", "g", "r", "e", "s", "s", " ", "w", "i", "t", "h", " ", "t", "y", "p", "e", ":", " ">>)
C2_Witness ==
  /\ ExitedWith(0)
  /\ args = << <<"i", "n", "g", "r", "e", "s", "s">> >>
  /\ stdout = << <<"R", "u", "n", "n", "i", "n", "g", " ", "i", "n", "g", "r", "e", "s", "s", " ", "w", "i", "t", "h", " ", "t", "y", "p", "e", ":", " ", "p", "o", "s", "t", "g", "r", "e", "s">> >>

FirstTokenNotSubcommand == args = << >> \/ args[1] \notin Subcommands

FirstTokenRejected ==
  \/ args = << >>
  \/ args[1] \notin (Subcommands \cup { <<"-", "-", "h", "e", "l", "p">>, <<"h", "e", "l", "p">>, <<"-", "-">> })

MalformedOption ==
  /\ Len(args) >= 2
  /\ args[1] \in Subcommands
  /\ \/ args = << args[1], <<"-", "-", "t", "y", "p", "e">> >>
     \/ args[2] = <<"-", "-", "v", "e", "r", "b", "o", "s", "e">>

\* C4: a subcommand followed by a malformed option (the type option as the
\* last token, without a value, or an option the subcommand does not declare)
\* ends in the usage error; and every non-zero exit is that usage error: no Cli
\* value was produced, the message is on standard error and standard output is
\* empty.
C4_MalformedOption ==
  /\ MalformedOption => (NoSuccessLine /\ (Exited => UsageErrorOutcome))
  /\ ExitedNonZero => (cli = None /\ stderr # << >> /\ stdout = << >>)
C4_Witness ==
  /\ ExitedWith(1)
  /\ args = << <<"i", "n", "g", "r", "e", "s", "s">>, <<"-", "-", "t", "y", "p", "e">> >>
  /\ stderr # << >> /\ stdout = << >>

TypeGiven == Len(args) = 3 /\ args[1] \in Subcommands /\ args[2] = <<"-", "-", "t", "y", "p", "e">>
EndsWith(s, e) == Len(s) >= Len(e) /\ SubSeq(s, Len(s) - Len(e) + 1, Len(s)) = e

\* C5: for both subcommands and every X given as the value of the type option,
\* parsing succeeds and the printed line ends in "with type: " followed by X,
\* unchanged.
C5_TypeVerbatim ==
  TypeGiven =>
    /\ pc # "start" => (cli # None /\ cli[1].type_ = args[3] /\ stderr = << >>)
    /\ Exited => (Len(stdout) = 1 /\ EndsWith(stdout[1], <<" ", "w", "i", "t", "h", " ", "t", "y", "p", "e", ":", " ">> \o args[3]))
C5_Witness ==
  /\ ExitedWith(0)
  /\ args = << <<"e", "g", "r", "e", "s", "s">>, <<"-", "-", "t", "y", "p", "e">>, <<"m", "y", " ", "{", "}", "%", "s">> >>
  /\ stdout = << <<"R", "u", "n", "n", "i", "n", "g", " ", "e", "g", "r", "e", "s", "s", " ", "w", "i", "t", "h", " ", "t", "y", "p", "e", ":", " ", "m", "y", " ", "{", "}", "%", "s">> >>
\* the empty string is a type like any other
C5_WitnessEmpty ==
  /\ ExitedWith(0)
  /\ args = << <<"i", "n", "g", "r", "e", "s", "s">>, <<"-", "-", "t", "y", "p", "e">>, << >> >>
  /\ stdout = << <<"R", "u", "n", "n", "i", "n", "g", " ", "i", "n", "g", "r", "e", "s", "s", " ", "w", "i", "t", "h", " ", "t", "y", "p", "e", ":", " ">> >>

C7_Original == stdout # << >> => cli # None

\* C7 amended: a success-format line is written only after parsing has
\* succeeded and the match has selected its arm; a run that parsed ends with
\* exactly one line on standard output and status 0; a run whose parsing ends
\* early (usage error, or a help request, which writes the help text to
\* standard output and exits 0) exits right from the parse step, without
\* dispatch or print; no run has a success line and a non-zero status; and
\* every run terminates.
C7_Sequence ==
  /\ [](~NoSuccessLine => (cli # None /\ pc \in {"return", "exited"}))
  /\ []((Exited /\ cli # None) => (Len(stdout) = 1 /\ ~NoSuccessLine /\ status = <<0>>))
  /\ []((Exited /\ cli = None) => NoSuccessLine)
  /\ [](~(~NoSuccessLine /\ ExitedNonZero))
  /\ [][ /\ (pc = "start" => pc' \in {"match", "exited"})
         /\ (pc' = "match" => (pc = "start" /\ cli' # None))
         /\ (pc' \in {"egress", "ingress"} => pc = "match")
         /\ (pc' = "return" => (pc \in {"egress", "ingress"} /\ Len(stdout') = Len(stdout) + 1))
         /\ (pc' = "exited" => (pc = "return" \/ (pc = "start" /\ cli' = None)))
         /\ (stdout' # stdout /\ pc' # "start" => pc \in {"start", "egress", "ingress"}) ]_vars
  /\ ((pc = "start") ~> Exited)
C7_Witness ==
  /\ ExitedWith(0) /\ cli # None
  /\ args = << <<"i", "n", "g", "r", "e", "s", "s">>, <<"-", "-", "t", "y", "p", "e">>, <<"m", "y", "s", "q", "l">>, <<"-", "-">> >>
  /\ stdout = << <<"R", "u", "n", "n", "i", "n", "g", " ", "i", "n", "g", "r", "e", "s", "s", " ", "w", "i", "t", "h", " ", "t", "y", "p", "e", ":", " ", "m", "y", "s", "q", "l">> >>

TypeStrings == Tokens \cup { <<"p", "o", "s", "t", "g", "r", "e", "s">> }

\* C8: once parsed, the Cli value's command is exactly one of Egress and
\* Ingress and carries a type string; the value is created by the parse step
\* only, stays as it is until the process ends, and the arm taken and the line
\* printed are those of the parsed variant.
C8_CliValue ==
  /\ [](cli # None =>
          /\ cli[1].command \in {"Egress", "Ingress"}
          /\ cli[1].type_ \in TypeStrings
          /\ (pc = "egress" => cli[1].command = "Egress")
          /\ (pc = "ingress" => cli[1].command = "Ingress")
          /\ (pc \in {"return", "exited"} =>
                /\ Len(stdout) = 1
                /\ (cli[1].command = "Egress"
                      => stdout[1] = <<"R", "u", "n", "n", "i", "n", "g", " ", "e", "g", "r", "e", "s", "s", " ", "w", "i", "t", "h", " ", "t", "y", "p", "e", ":", " ">> \o cli[1].type_)
                /\ (cli[1].command = "Ingress"
                      => stdout[1] = <<"R", "u", "n", "n", "i", "n", "g", " ", "i", "n", "g", "r", "e", "s", "s", " ", "w", "i", "t", "h", " ", "t", "y", "p", "e", ":", " ">> \o cli[1].type_)))
  /\ [][ /\ ((cli = None /\ cli' # None) => pc = "start")
         /\ ((cli # None /\ pc' # "start") => cli' = cli) ]_vars
C8_Witness ==
  /\ pc = "return" /\ cli # None /\ cli[1].command = "Ingress"
  /\ cli[1].type_ = <<"m", "y", "s", "q", "l">>
  /\ stdout = << <<"R", "u", "n", "n", "i", "n", "g", " ", "i", "n", "g", "r", "e", "s", "s", " ", "w", "i", "t", "h", " ", "t", "y", "p", "e", ":", " ", "m", "y", "s", "q", "l">> >>

NearMisses == { <<"E", "g", "r", "e", "s", "s">>, <<"I", "N", "G", "R", "E", "S", "S">>, <<"e", "g", "r", "e", "s">>, <<"e", "g", "r", "e", "s", "s", "s">> }

\* C9: a first token that differs from "egress" / "ingress" only in letter
\* case, or is a proper prefix or an extension of one, is unrecognized: usage
\* error, non-zero exit, no success line.
C9_ExactMatch ==
  (args # << >> /\ args[1] \in NearMisses) =>
    (cli = None /\ NoSuccessLine /\ (Exited => UsageErrorOutcome))
C9_Witness ==
  /\ ExitedWith(1) /\ args = << <<"e", "g", "r", "e", "s">>, <<"-", "-", "t", "y", "p", "e">>, <<"m", "y", "s", "q", "l">> >>
  /\ stderr[1] = <<"U", "n", "r", "e", "c", "o", "g", "n", "i", "z", "e", "d", " ", "a", "r", "g", "u", "m", "e", "n", "t", ":", " ", "e", "g", "r", "e", "s">>
  /\ stdout = << >>

SubcommandFirst == args # << >> /\ args[1] \in Subcommands
PlainContinuation(t) == t = << >> \/ (Len(t) = 2 /\ t[1] = <<"-", "-", "t", "y", "p", "e">>)

\* C10 as claimed: after a subcommand token, every continuation other than
\* nothing or the type option with its value ends in the usage error.
C10_Original ==
  (SubcommandFirst /\ ~PlainContinuation(Tail(args))) =>
    (NoSuccessLine /\ (Exited => UsageErrorOutcome))

AcceptedContinuation(t) ==
  \/ t = << >>
  \/ t = << <<"-", "-">> >>
  \/ Len(t) = 2 /\ t[1] = <<"-", "-", "t", "y", "p", "e">>
  \/ Len(t) = 3 /\ t[1] = <<"-", "-", "t", "y", "p", "e">> /\ t[3] = <<"-", "-">>
HasHelpToken(t) == \E i \in 1..Len(t) : t[i] \in { <<"-", "-", "h", "e", "l", "p">>, <<"h", "e", "l", "p">> }

\* C10 amended: after a subcommand token the success line is printed for
\* exactly these continuations: nothing, or the type option with its value,
\* either one optionally followed by the end-of-options marker "--".  Every
\* other continuation writes no success line; it ends in the usage error,
\* except that a continuation containing a help token ("--help" or "help") may
\* end in the help text on standard output and exit status 0.
C10_Amended ==
  SubcommandFirst =>
    IF AcceptedContinuation(Tail(args))
      THEN Exited => (status = <<0>> /\ Len(stdout) = 1 /\ ~NoSuccessLine)
      ELSE /\ NoSuccessLine
           /\ cli = None
           /\ Exited =>
                \/ UsageErrorOutcome
                \/ HasHelpToken(Tail(args)) /\ status = <<0>> /\ stdout # << >>
C10_Witness ==
  /\ ExitedWith(1)
  /\ args = << <<"e", "g", "r", "e", "s", "s">>, <<"-", "-", "t", "y", "p", "e">>, <<"m", "y", "s", "q", "l">>, <<"-", "-", "t", "y", "p", "e">>, <<"m", "y", "s", "q", "l">> >>
  /\ stderr[1] = <<"E", "r", "r", "o", "r", " ", "p", "a", "r", "s", "i", "n", "g", " ", "o", "p", "t", "i", "o", "n", " ", "'", "-", "-", "t", "y", "p", "e", "'", " ", "w", "i", "t", "h", " ", "v", "a", "l", "u", "e", " ", "'", "m", "y", "s", "q", "l", "'", ":", " ", "d", "u", "p", "l", "i", "c", "a", "t", "e", " ", "v", "a", "l", "u", "e", "s", " ", "p", "r", "o", "v", "i", "d", "e", "d">>
  /\ stdout = << >>

====
